---- MODULE Spec2Model ----
(***************************************************************************)
(* State-machine model of search_acervo_api.py: the LexmlAcervo paginated  *)
(* SRU client (query, automatic_pagination, parseError, loadIntoXml,       *)
(* saveResults) and the responses of the remote server it talks to.        *)
(***************************************************************************)
EXTENDS Integers, Sequences, FiniteSets, TLC

\* ------------------------------------------------------------------ bounds
\* largest numberOfRecords the server reports
MaxTotal == 3

\* largest maximumRecordsPerPage a caller passes
MaxPage == 2

\* number of query calls made in one behaviour
MaxCalls == 3

\* nested automatic_pagination frames the interpreter allows (CPython's
\* sys.getrecursionlimit() is 1000 by default; scaled down with MaxTotal)
RecursionLimit == 2

\* an iteration bound a caller would like automatic_pagination to respect
GuardN == 1

\* Python's None, for the fields that hold None or an integer
None == -1

\* --------------------------------------------------------------- variables
VARIABLES
    containerOfXmlFiles,            \* self.containerOfXmlFiles
    overall_query_objects_tracker,  \* self.__overall_query_objects_tracker
    total_objects_of_query,         \* self.__total_objects_of_query
    completed_query,                \* self.__completed_query
    r,              \* the response to the GET of the latest query call
    result,         \* what the latest query call returned or raised
    stack,          \* frames of automatic_pagination, innermost last
    autoStatus,     \* how the current automatic_pagination call stands
    autoFetches,    \* query calls made by the current automatic_pagination call
    autoClean,      \* that call saw one total and no error so far
    files,          \* the files saveResults has written
    saveStatus,     \* how the latest saveResults call ended
    nCalls,         \* number of query calls made on the session
    runP,           \* the page size of a uniform run of calls, else 0
    doneAt,         \* nCalls when completed_query became true, else 0
    requests,       \* the arguments of the query calls of a hand-driven run
    xml,                \* XmlToJson: self.xml
    container_of_json,  \* XmlToJson: self.container_of_json
    parsed,         \* what the latest parseToJson call returned or raised
    nParse          \* parseToJson calls made on the XmlToJson

session == <<containerOfXmlFiles, overall_query_objects_tracker,
             total_objects_of_query, completed_query>>

lastQuery == <<r, result>>

auto == <<stack, autoStatus, autoFetches, autoClean>>

disk == <<files, saveStatus>>

history == <<nCalls, runP, doneAt>>

extractor == <<xml, container_of_json, parsed, nParse>>

vars == <<containerOfXmlFiles, overall_query_objects_tracker,
          total_objects_of_query, completed_query, r, result, stack,
          autoStatus, autoFetches, autoClean, files, saveStatus, nCalls,
          runP, doneAt, requests, xml, container_of_json, parsed, nParse>>

\* ------------------------------------------------------- the remote server
SearchTag == "{srw}searchRetrieveResponse"

DiagnosticsTags == {"{srw}diagnostics"}

\* number of elements getiterator() finds in a diagnostics document
DiagElems == {3, 4, 5}

ValidBody(t) ==
    [wellFormed |-> TRUE, root |-> SearchTag, numberOfRecords |-> t, elems |-> 0]

DiagBody(tag, n) ==
    [wellFormed |-> TRUE, root |-> tag, numberOfRecords |-> None, elems |-> n]

\* well-formed XML that is neither a result set nor a diagnostics document
OtherBody ==
    [wellFormed |-> TRUE, root |-> "html", numberOfRecords |-> None, elems |-> 0]

\* a body ET.fromstring rejects
MalformedBody ==
    [wellFormed |-> FALSE, root |-> "", numberOfRecords |-> None, elems |-> 0]

\* status 0: requests.get raised before any response arrived
NoResponse == [status |-> 0, body |-> MalformedBody]

\* no GET has been issued by the call in progress
NoRequest == [status |-> None, body |-> MalformedBody]

Valid(t) == [status |-> 200, body |-> ValidBody(t)]

ErrorBodies ==
    {OtherBody, MalformedBody}
        \cup {DiagBody(tag, n) : tag \in DiagnosticsTags, n \in DiagElems}

\* what one GET can bring back
Responses ==
    {Valid(t) : t \in 0..MaxTotal}
        \cup {[status |-> s, body |-> b] : s \in {200, 500}, b \in ErrorBodies}
        \cup {NoResponse}

\* ------------------------------------------------------- helpers of query
\* Python truthiness of an Optional[int]: `not x`
Falsy(x) == x = None \/ x = 0

\* r.raise_for_status() raises HTTPError
HTTPError(resp) == resp.status >= 400

NoTree == [root |-> "", numberOfRecords |-> None, elems |-> 0]

\* loadIntoXml: decode, normalise, ET.fromstring; the tree keeps the root tag,
\* the count held by the second child and the number of elements
loadIntoXml(resp) ==
    [root |-> resp.body.root,
     numberOfRecords |-> resp.body.numberOfRecords,
     elems |-> resp.body.elems]

\* "diagnostics" in tree.getroot().tag
IsDiagnostics(tree) == tree.root \in DiagnosticsTags

\* parseError: positional lookup of elements 3 and 4 of the document; a
\* document with fewer than 4 elements raises IndexError out of the handler
\* (an ElementTree without getiterator raises here for every document)
parseError(tree) ==
    IF tree.elems >= 5 THEN "type: message"
    ELSE IF tree.elems >= 4 THEN "message"
    ELSE "IndexError"

\* int(list(tree.getroot())[1].text); None when that is no integer
numeroObjetos(tree) == tree.numberOfRecords

Raise(exc) ==
    [kind |-> "raise", exc |-> exc, tree |-> NoTree, next |-> 0, size |-> 0]

ReturnNone ==
    [kind |-> "None", exc |-> "", tree |-> NoTree, next |-> 0, size |-> 0]

ReturnPage(tree, next, size) ==
    [kind |-> "page", exc |-> "", tree |-> tree, next |-> next, size |-> size]

SetTotalMut(total, n) == IF total = None /\ n > 0 THEN n ELSE total

\* if not self.__total_objects_of_query: self.__total_objects_of_query = n
SetTotal(total, n) == IF Falsy(total) THEN n ELSE total

AddToContainerMut(container, tree) == <<tree>> \o container

\* __addToContainerOfXmlFiles
AddToContainer(container, tree) == Append(container, tree)

CompletedAfterAssign(completed, tracker, n) == tracker >= n

CompletedAfterStrict(completed, tracker, n) ==
    IF tracker > n THEN TRUE ELSE completed

\* if tracker >= numeroObjetos: self.__completed_query = True
CompletedAfter(completed, tracker, n) ==
    IF tracker >= n THEN TRUE ELSE completed

Min(a, b) == IF a <= b THEN a ELSE b

TrackerAfterReturned(tracker, P, n) ==
    tracker + Min(P, IF n > tracker THEN n - tracker ELSE 0)

\* self.__overall_query_objects_tracker += maximumRecordsPerPage
TrackerAfter(tracker, P, n) == tracker + P

NextStartFromArg(tracker, startRecord, P) == startRecord + P

NextStartZeroBased(tracker, startRecord, P) == tracker

\* start_record_next_query = self.__overall_query_objects_tracker + 1
NextStart(tracker, startRecord, P) == tracker + 1

OnDiagnosticsMut(sess, tree) ==
    [sess EXCEPT !.container = Append(@, tree)]

\* the diagnostics branch: print the message and return None
OnDiagnostics(sess, tree) == sess

\* the else branch of query from the count on (lines 90-109)
ValidUpdate(sess, tree, P) ==
    LET n == numeroObjetos(tree)
        tracker == TrackerAfter(sess.tracker, P, n)
    IN  [container |-> AddToContainer(sess.container, tree),
         tracker   |-> tracker,
         total     |-> SetTotal(sess.total, n),
         completed |-> CompletedAfter(sess.completed, tracker, n)]

\* query(startRecord, maximumRecordsPerPage) on session sess when the GET
\* is answered by resp: the session it leaves and what it returns
Query(sess, resp, startRecord, P) ==
    IF resp.status = 0
    THEN [sess |-> sess, ret |-> Raise("ConnectionError")]
    ELSE IF ~resp.body.wellFormed
    THEN [sess |-> sess, ret |-> Raise("ParseError")]
    ELSE LET tree == loadIntoXml(resp) IN
         IF IsDiagnostics(tree)
         THEN [sess |-> OnDiagnostics(sess, tree),
               ret  |-> IF parseError(tree) = "IndexError"
                        THEN Raise("IndexError") ELSE ReturnNone]
         ELSE IF HTTPError(resp)
         THEN [sess |-> sess, ret |-> ReturnNone]
         ELSE IF numeroObjetos(tree) = None
         THEN [sess |-> sess, ret |-> Raise("ValueError")]
         ELSE LET next == ValidUpdate(sess, tree, P) IN
              [sess |-> next,
               ret  |-> ReturnPage(tree,
                                   NextStart(next.tracker, startRecord, P), P)]

Sess ==
    [container |-> containerOfXmlFiles,
     tracker   |-> overall_query_objects_tracker,
     total     |-> total_objects_of_query,
     completed |-> completed_query]

SetSession(s) ==
    /\ containerOfXmlFiles' = s.container
    /\ overall_query_objects_tracker' = s.tracker
    /\ total_objects_of_query' = s.total
    /\ completed_query' = s.completed

\* the response repeats the total of the previous stored page
SameTotal(resp) ==
    /\ resp.status = 200
    /\ resp.body.root = SearchTag
    /\ \/ containerOfXmlFiles = <<>>
       \/ resp.body.numberOfRecords =
            containerOfXmlFiles[Len(containerOfXmlFiles)].numberOfRecords

\* the calls made so far form a uniform run: every response valid with one
\* total, one page size, startRecord 1 and then each returned next start
Uniform == nCalls > 0 /\ runP > 0

UniformCall(resp, startRecord, P) ==
    /\ nCalls = 0 \/ (Uniform /\ P = runP)
    /\ SameTotal(resp)
    /\ startRecord = overall_query_objects_tracker + 1

\* bookkeeping of one query call
Track(out, resp, startRecord, P) ==
    /\ nCalls' = nCalls + 1
    /\ runP' = IF UniformCall(resp, startRecord, P) THEN P ELSE 0
    /\ doneAt' = IF ~completed_query /\ out.sess.completed
                 THEN nCalls + 1 ELSE doneAt

StartRecords == {1, overall_query_objects_tracker + 1}

IdleQuery == r' = NoRequest /\ result' = ReturnNone

IdleAuto == autoStatus' = "idle" /\ autoFetches' = 0 /\ autoClean' = FALSE

\* no XmlToJson has been constructed
NoFile == [read |-> FALSE, items |-> <<>>]

\* parseToJson has not been called
NotParsed == [kind |-> "none", exc |-> "", records |-> <<>>]

\* ------------------------------------------------------------------- Init
Init ==
    /\ containerOfXmlFiles = <<>>
    /\ overall_query_objects_tracker = 0
    /\ total_objects_of_query = None
    /\ completed_query = FALSE
    /\ r = NoRequest
    /\ result = ReturnNone
    /\ stack = <<>>
    /\ autoStatus = "idle"
    /\ autoFetches = 0
    /\ autoClean = FALSE
    /\ files = {}
    /\ saveStatus = "idle"
    /\ nCalls = 0
    /\ runP = 0
    /\ doneAt = 0
    /\ requests = <<>>
    /\ xml = NoFile
    /\ container_of_json = <<>>
    /\ parsed = NotParsed
    /\ nParse = 0

\* ---------------------------------------------------------------- actions
\* the caller calls query(startRecord, maximumRecordsPerPage)
FetchPage ==
    /\ stack = <<>>
    /\ nCalls < MaxCalls
    /\ \E startRecord \in StartRecords, P \in 1..MaxPage, resp \in Responses :
        LET out == Query(Sess, resp, startRecord, P) IN
        /\ SetSession(out.sess)
        /\ r' = resp
        /\ result' = out.ret
        /\ Track(out, resp, startRecord, P)
    /\ IdleAuto
    /\ saveStatus' = "idle"
    /\ UNCHANGED <<stack, files, requests, extractor>>

\* the caller calls automatic_pagination(startRecord, maximumRecordsPerPage)
AutoPaginate ==
    /\ stack = <<>>
    /\ \E startRecord \in StartRecords, P \in 1..MaxPage :
        stack' = <<[startRecord |-> startRecord, maximumRecordsPerPage |-> P]>>
    /\ autoStatus' = "running"
    /\ autoFetches' = 0
    /\ autoClean' = TRUE
    /\ IdleQuery
    /\ saveStatus' = "idle"
    /\ UNCHANGED <<session, files, history, requests, extractor>>

RecurseLoop(stk, locals) == [stk EXCEPT ![Len(stk)] = locals]

\* the frame keeps the unpacked values and calls
\* self.automatic_pagination(startRecord, maximumRecordsPerPage)
Recurse(stk, locals) == Append([stk EXCEPT ![Len(stk)] = locals], locals)

UnpackableMut(ret) == TRUE

\* tree, startRecord, maximumRecordsPerPage = self.query(...) succeeds
Unpackable(ret) == ret.kind = "page"

\* an exception leaves every frame of automatic_pagination
Unwind(exc) ==
    /\ stack' = <<>>
    /\ autoStatus' = exc

\* one pass of the while body in the innermost frame (lines 120-124)
AutoIterate ==
    /\ stack /= <<>>
    /\ ~completed_query
    /\ nCalls < MaxCalls
    /\ LET top == Len(stack)
           frame == stack[top]
       IN \E resp \in Responses :
          LET out == Query(Sess, resp, frame.startRecord,
                           frame.maximumRecordsPerPage)
              ret == out.ret
              locals == IF ret.kind = "page"
                        THEN [startRecord |-> ret.next,
                              maximumRecordsPerPage |-> ret.size]
                        ELSE frame
          IN
          /\ SetSession(out.sess)
          /\ r' = resp
          /\ result' = ret
          /\ Track(out, resp, frame.startRecord, frame.maximumRecordsPerPage)
          /\ autoFetches' = autoFetches + 1
          /\ autoClean' = (/\ autoClean
                           /\ SameTotal(resp) \/ (autoFetches = 0 /\ resp \in
                                {Valid(t) : t \in 0..MaxTotal}))
          /\ IF ret.kind = "raise" THEN Unwind(ret.exc)
             ELSE IF ~Unpackable(ret) THEN Unwind("TypeError")
             ELSE IF top >= RecursionLimit THEN Unwind("RecursionError")
             ELSE /\ stack' = Recurse(stack, locals)
                  /\ autoStatus' = autoStatus
    /\ UNCHANGED <<disk, requests, extractor>>

\* the while test fails in the innermost frame: it returns to its caller
AutoReturn ==
    /\ stack /= <<>>
    /\ completed_query
    /\ stack' = SubSeq(stack, 1, Len(stack) - 1)
    /\ autoStatus' = IF Len(stack) = 1 THEN "returned" ELSE autoStatus
    /\ UNCHANGED <<session, lastQuery, autoFetches, autoClean, disk, history,
                   requests, extractor>>

Filenames == {"a"}

WriteXmlOneBased(index, filename, tree) ==
    [name |-> <<index + 1, filename>>, encoding |-> "utf-8", doc |-> tree]

\* xmlfile.write(full_xml_filename, encoding="utf-8")
WriteXml(index, filename, tree) ==
    [name |-> <<index, filename>>, encoding |-> "utf-8", doc |-> tree]

\* a write replaces the file of the same name
Overwrite(fs, new) ==
    {f \in fs : \A g \in new : g.name /= f.name} \cup new

\* saveResults(path, filename): the first k pages are written; a failing
\* mkdir or write raises FileNotFoundError and leaves the later ones unwritten
SaveResults ==
    /\ stack = <<>>
    /\ \E filename \in Filenames, k \in 0..Len(containerOfXmlFiles),
          ok \in BOOLEAN :
        /\ ok => k = Len(containerOfXmlFiles)
        /\ files' = Overwrite(files,
                {WriteXml(i - 1, filename, containerOfXmlFiles[i]) : i \in 1..k})
        /\ saveStatus' = IF ok THEN "saved" ELSE "FileNotFoundError"
    /\ IdleQuery
    /\ IdleAuto
    /\ UNCHANGED <<session, stack, history, requests, extractor>>

\* ------------------------------------------------------- hand-driven run
\* largest startRecord a caller passes to the first call of a run
MaxStart == 2

\* the startRecord of the next call of the run: the caller's choice for the
\* first call, then the start record the call before returned
FedForward == IF requests = <<>> THEN 1..MaxStart ELSE {result.next}

\* a caller drives query by hand, feeding each returned start record into
\* the next call; the run ends when a call returns no page
RunQuery ==
    /\ stack = <<>>
    /\ nCalls < MaxCalls
    /\ requests = <<>> \/ result.kind = "page"
    /\ \E startRecord \in FedForward, P \in 1..MaxPage, resp \in Responses :
        LET out == Query(Sess, resp, startRecord, P) IN
        /\ SetSession(out.sess)
        /\ r' = resp
        /\ result' = out.ret
        /\ Track(out, resp, startRecord, P)
        /\ requests' = Append(requests,
                [startRecord |-> startRecord, maximumRecordsPerPage |-> P])
    /\ IdleAuto
    /\ saveStatus' = "idle"
    /\ UNCHANGED <<stack, files, extractor>>

\* -------------------------------------------------------------- XmlToJson
\* most items a saved page holds
MaxItems == 3

\* parseToJson calls made on one XmlToJson
MaxParses == 3

\* __BASE_URL
BASE_URL == "https://www.lexml.gov.br/urn/"

\* the children of an item that __parseXml reads
ItemKeys ==
    {"tipoDocumento", "facet-tipoDocumento", "dc:date", "urn", "localidade",
     "facet-localidade", "autoridade", "facet-autoridade", "dc:title",
     "dc:description", "dc:type", "dc:identifier"}

Urns == {"urn:lex:br:federal:lei:2019", "urn:lex:br:federal:decreto:2020"}

\* an item carrying every child, each holding some text
Item(urn) == [k \in ItemKeys |-> IF k = "urn" THEN urn ELSE "text of " \o k]

\* an item without its dc:title child
Untitled(urn) ==
    [k \in ItemKeys \ {"dc:title"} |->
        IF k = "urn" THEN urn ELSE "text of " \o k]

Items == {Item(urn) : urn \in Urns} \cup
         {Untitled("urn:lex:br:federal:lei:2019")}

\* the items at depth 5 of a saved page, in document order
Documents == UNION {[1..n -> Items] : n \in 0..MaxItems}

\* the keys of the dict __parseXml builds
DataKeys ==
    {"tipoDocumento", "facet-tipoDocumento", "data", "urn", "url",
     "localidade", "facet-localidade", "autoridade", "facet-autoridade",
     "title", "description", "type", "identifier"}

\* the child of the item that a key of the dict is read from
SourceKey(k) ==
    CASE k = "data"        -> "dc:date"
      [] k = "title"       -> "dc:title"
      [] k = "description" -> "dc:description"
      [] k = "type"        -> "dc:type"
      [] k = "identifier"  -> "dc:identifier"
      [] OTHER             -> k

\* document[...] finds every key __parseXml reads
HasAllKeys(document) == ItemKeys \subseteq DOMAIN document

\* the dict __parseXml builds from one item
parseXml(document) ==
    [k \in DataKeys |->
        IF k = "url" THEN BASE_URL \o document["urn"]
        ELSE document[SourceKey(k)]]

\* position of the first item that raises KeyError, else Len(doc) + 1
FirstBad(doc) ==
    IF \A i \in 1..Len(doc) : HasAllKeys(doc[i]) THEN Len(doc) + 1
    ELSE CHOOSE i \in 1..Len(doc) :
            /\ ~HasAllKeys(doc[i])
            /\ \A j \in 1..(i - 1) : HasAllKeys(doc[j])

ItemCallbackFresh(container, doc) ==
    [i \in 1..(FirstBad(doc) - 1) |-> parseXml(doc[i])]

\* xmltodict.parse calls __parseXml on each item in document order; every
\* call appends its dict to self.container_of_json, until one raises
ItemCallback(container, doc) ==
    container \o [i \in 1..(FirstBad(doc) - 1) |-> parseXml(doc[i])]

\* parseToJson(): the container it leaves and what it returns or raises
parseToJson(container, doc) ==
    LET after == ItemCallback(container, doc) IN
    [container |-> after,
     ret |-> IF FirstBad(doc) <= Len(doc)
             THEN [kind |-> "raise", exc |-> "KeyError", records |-> <<>>]
             ELSE [kind |-> "records", exc |-> "", records |-> after]]

\* XmlToJson(xmlfile): read the file and create the empty container
XmlToJsonInit ==
    /\ ~xml.read
    /\ \E doc \in Documents : xml' = [read |-> TRUE, items |-> doc]
    /\ container_of_json' = <<>>
    /\ parsed' = NotParsed
    /\ nParse' = 0
    /\ UNCHANGED <<session, lastQuery, auto, disk, history, requests>>

\* the caller calls parseToJson() on the XmlToJson
ParseToJson ==
    /\ xml.read
    /\ nParse < MaxParses
    /\ LET out == parseToJson(container_of_json, xml.items) IN
        /\ container_of_json' = out.container
        /\ parsed' = out.ret
    /\ nParse' = nParse + 1
    /\ UNCHANGED <<session, lastQuery, auto, disk, history, requests, xml>>

\* --------------------------------------------------------------- claims
CeilDiv(a, b) == (a + b - 1) \div b

Max(a, b) == IF a >= b THEN a ELSE b

IsPrefix(p, q) == Len(p) <= Len(q) /\ SubSeq(q, 1, Len(p)) = p

\* the total every response of a uniform run reported
RunTotal == containerOfXmlFiles[Len(containerOfXmlFiles)].numberOfRecords

\* this step is one call of query
QueryStep == nCalls' = nCalls + 1

\* this step is one call of query made by automatic_pagination
AutoQueryStep == autoFetches' = autoFetches + 1

Fresh ==
    /\ containerOfXmlFiles = <<>>
    /\ overall_query_objects_tracker = 0
    /\ total_objects_of_query = None
    /\ ~completed_query

\* C1 as stated: in a uniform run (fresh session, one total T on every
\* response, no error, one page size P, startRecord 1 and then each returned
\* next start) completed_query becomes true at call number ceil(T/P), not
\* before, and the tracker is >= T then.
C1_CallsToComplete ==
    Uniform =>
        /\ completed_query =>
              /\ doneAt = CeilDiv(RunTotal, runP)
              /\ overall_query_objects_tracker >= RunTotal
        /\ ~completed_query => nCalls < CeilDiv(RunTotal, runP)

\* C1 amended: the same with max(1, ceil(T/P)) calls, which is ceil(T/P)
\* for T >= 1 and one call for T = 0.
C1_CallsToCompleteAmended ==
    Uniform =>
        /\ completed_query =>
              /\ doneAt = Max(1, CeilDiv(RunTotal, runP))
              /\ overall_query_objects_tracker >= RunTotal
        /\ ~completed_query => nCalls < Max(1, CeilDiv(RunTotal, runP))

C1_Witness ==
    /\ Uniform
    /\ completed_query
    /\ doneAt = 2
    /\ RunTotal = 3
    /\ runP = 2

\* C2: completed_query is monotonic: no step of any operation takes it from
\* true back to false.
C2_CompletedMonotonic == [][completed_query => completed_query']_vars

C2_Witness ==
    /\ completed_query
    /\ doneAt < nCalls
    /\ result.kind = "page"
    /\ result.tree.numberOfRecords > overall_query_objects_tracker

\* C3 as stated: once total_objects_of_query holds a count, no step changes
\* it, whatever totals later responses report.
C3_TotalNeverChanges ==
    [][total_objects_of_query /= None =>
            total_objects_of_query' = total_objects_of_query]_vars

\* C4: a call of query answered by a diagnostics document (under a 2xx or a
\* non-2xx status) returns no page and leaves the four session fields as
\* they were.
C4_DiagnosticsNoPage ==
    [][(QueryStep /\ IsDiagnostics(loadIntoXml(r'))) =>
            (result'.kind \in {"None", "raise"} /\ UNCHANGED session)]_vars

C4_Witness ==
    /\ IsDiagnostics(loadIntoXml(r))
    /\ r.status = 500
    /\ result.kind = "None"
    /\ Len(containerOfXmlFiles) >= 1
    /\ ~completed_query

\* C5: the container is append-only and in fetch order: every step leaves
\* the old container as a prefix of the new one, a successful call appends
\* exactly the tree of its response, and a failed call appends nothing.
C5_PagesAppendOnly ==
    [][/\ IsPrefix(containerOfXmlFiles, containerOfXmlFiles')
       /\ (QueryStep /\ result'.kind = "page") =>
             containerOfXmlFiles' =
                Append(containerOfXmlFiles, loadIntoXml(r'))
       /\ (QueryStep /\ result'.kind /= "page") =>
             containerOfXmlFiles' = containerOfXmlFiles]_vars

C5_Witness ==
    /\ Len(containerOfXmlFiles) >= 2
    /\ containerOfXmlFiles[1] /= containerOfXmlFiles[2]
    /\ result.kind = "page"
    /\ result.tree = containerOfXmlFiles[Len(containerOfXmlFiles)]

\* C6 as stated: a call of query made when completed_query is true leaves it
\* true, leaves total_objects_of_query unchanged, and leaves the tracker
\* non-negative and not smaller than before.
C6_FetchAfterCompleted ==
    [][(completed_query /\ QueryStep) =>
            /\ completed_query'
            /\ total_objects_of_query' = total_objects_of_query
            /\ overall_query_objects_tracker' >= 0
            /\ overall_query_objects_tracker' >=
                  overall_query_objects_tracker]_vars

\* C7: when the first valid response of a fresh session reports 0 records,
\* that one call leaves the total at 0, completed_query true and exactly
\* one page, the empty response, in the container.
C7_ZeroResult ==
    [][(Fresh /\ QueryStep /\ r' = Valid(0)) =>
            /\ total_objects_of_query' = 0
            /\ completed_query'
            /\ containerOfXmlFiles' = <<loadIntoXml(Valid(0))>>]_vars

C7_Witness ==
    /\ r = Valid(0)
    /\ nCalls = 2
    /\ containerOfXmlFiles = <<loadIntoXml(Valid(0))>>
    /\ total_objects_of_query = 0
    /\ completed_query

\* C8 as stated: a call of automatic_pagination that sees one total and no
\* error ends by returning to its caller with completed_query true, and it
\* calls query only while completed_query is false.
C8_AutoTerminates ==
    [][/\ (autoStatus = "running" /\ autoStatus' /= "running" /\ autoClean')
            => (autoStatus' = "returned" /\ completed_query')
       /\ AutoQueryStep => ~completed_query]_vars

C10_IterationGuard == autoFetches <= GuardN

\* C12 as stated: a non-2xx response whose body is no diagnostics document
\* ends query with an explicit failure, which is neither a page nor the
\* None that a diagnostics response yields.
C12_TransportErrorSurfaced ==
    (r.status >= 400 /\ ~IsDiagnostics(loadIntoXml(r))) =>
        result.kind = "raise"

\* the files a complete saveResults(path, filename) writes
PageFiles(filename) ==
    {[name |-> <<i - 1, filename>>, encoding |-> "utf-8",
      doc |-> containerOfXmlFiles[i]] : i \in 1..Len(containerOfXmlFiles)}

\* C13: a saveResults call that returns has written, for every i below the
\* number of pages, the file named (i, filename) holding page i of the
\* container, has created or replaced no other file, has left the session
\* as it was, and, when the call before it was a saveResults that returned
\* too, has left the directory as it was.
C13_SaveResults ==
    [][saveStatus' = "saved" =>
        \E filename \in Filenames :
            /\ PageFiles(filename) \subseteq files'
            /\ (files' \ files) \subseteq PageFiles(filename)
            /\ \A f \in files \ files' :
                  \E g \in PageFiles(filename) : g.name = f.name
            /\ UNCHANGED session
            /\ saveStatus = "saved" => files' = files]_vars

C13_Witness ==
    /\ saveStatus = "saved"
    /\ Len(containerOfXmlFiles) = 2
    /\ containerOfXmlFiles[1] /= containerOfXmlFiles[2]
    /\ files = PageFiles("a")
    /\ Cardinality(files) = 2

\* C15 as stated: a successful call of query leaves completed_query true
\* exactly when it was true before or the new tracker is >= the session's
\* total_objects_of_query; so completed_query implies tracker >= total.
C15_CompletionAgainstTotal ==
    [][/\ (QueryStep /\ result'.kind = "page") =>
            (completed_query' <=>
                \/ completed_query
                \/ overall_query_objects_tracker' >= total_objects_of_query')
       /\ completed_query' =>
            overall_query_objects_tracker' >= total_objects_of_query']_vars

\* C16: a successful call of query appends exactly one page and adds exactly
\* the requested page size to the tracker, also when completed_query was
\* already true; no other step changes either; in a uniform run of n calls
\* of size P the tracker is n * P and the container holds n pages.
C16_TrackerCountsRequested ==
    [][/\ (QueryStep /\ result'.kind = "page") =>
            /\ Len(containerOfXmlFiles') = Len(containerOfXmlFiles) + 1
            /\ overall_query_objects_tracker' =
                  overall_query_objects_tracker + result'.size
       /\ ~(QueryStep /\ result'.kind = "page") =>
            UNCHANGED <<containerOfXmlFiles, overall_query_objects_tracker>>
       /\ Uniform' =>
            /\ overall_query_objects_tracker' = nCalls' * runP'
            /\ Len(containerOfXmlFiles') = nCalls']_vars

C16_Witness ==
    /\ completed_query
    /\ doneAt < nCalls
    /\ result.kind = "page"
    /\ Len(containerOfXmlFiles) = 2
    /\ overall_query_objects_tracker = 4
    /\ result.tree.numberOfRecords = 1

\* C17 as stated: every page adds one nested frame of automatic_pagination,
\* no nested frame ever returns to the frame that called it, and a run that
\* fetched a page never ends by returning.
C17_NeverReturns ==
    [][/\ (AutoQueryStep /\ stack' /= <<>>) => Len(stack') = Len(stack) + 1
       /\ ~(Len(stack) >= 2 /\ Len(stack') = Len(stack) - 1)
       /\ ~(autoFetches >= 1 /\ autoStatus' = "returned")]_vars

\* C17 amended: every page adds one nested frame, so while completed_query
\* is false the depth is the number of pages fetched plus one; once
\* completed_query is true each frame returns to the frame that called it,
\* one at a time, and the outermost returns to the caller.
C17_DepthAndReturn ==
    [][/\ (AutoQueryStep /\ stack' /= <<>>) => Len(stack') = Len(stack) + 1
       /\ (stack' /= <<>> /\ ~completed_query') =>
            Len(stack') = autoFetches' + 1
       /\ (Len(stack') < Len(stack) /\ autoStatus' \in {"running", "returned"})
            => /\ completed_query
               /\ Len(stack') = Len(stack) - 1
               /\ autoStatus' = "returned" <=> stack' = <<>>]_vars

C17_Witness ==
    /\ autoStatus = "running"
    /\ Len(stack) = 1
    /\ autoFetches = 1
    /\ completed_query

\* a run that starts at startRecord 1 and keeps one page size
ConstantRun(log) ==
    /\ log /= <<>>
    /\ log[1].startRecord = 1
    /\ \A k \in 1..Len(log) :
          log[k].maximumRecordsPerPage = log[1].maximumRecordsPerPage

\* C11: a successful call of query returns the page it has just stored, the
\* tracker as updated by that call plus one, and the page size it was given;
\* so the k-th call of a fed-forward run that starts at 1 with a constant
\* page size P is made with startRecord (k - 1) * P + 1.
C11_ReturnsNextStart ==
    [][/\ (QueryStep /\ result'.kind = "page") =>
            /\ result'.tree =
                  containerOfXmlFiles'[Len(containerOfXmlFiles')]
            /\ Len(containerOfXmlFiles') = Len(containerOfXmlFiles) + 1
            /\ result'.next = overall_query_objects_tracker' + 1
            /\ result'.size =
                  requests'[Len(requests')].maximumRecordsPerPage
       /\ ConstantRun(requests') =>
            \A k \in 1..Len(requests') :
                requests'[k].startRecord =
                    (k - 1) * requests'[1].maximumRecordsPerPage + 1]_vars

C11_Witness ==
    /\ requests = <<[startRecord |-> 1, maximumRecordsPerPage |-> 2],
                    [startRecord |-> 3, maximumRecordsPerPage |-> 2]>>
    /\ total_objects_of_query = 3
    /\ overall_query_objects_tracker = 4
    /\ completed_query
    /\ doneAt = 2
    /\ result.kind = "page"
    /\ result.next = 5

\* every item of the document carries every field
AllValid(doc) == \A i \in 1..Len(doc) : HasAllKeys(doc[i])

\* C14 as stated: a parseToJson call on a document of n items that all carry
\* every field returns exactly n records, the i-th built from the i-th item,
\* its url being the base URL followed by the item's urn.
C14_ExactlyNRecords ==
    (parsed.kind = "records" /\ AllValid(xml.items)) =>
        /\ Len(parsed.records) = Len(xml.items)
        /\ \A i \in 1..Len(parsed.records) :
              /\ parsed.records[i]["urn"] = xml.items[i]["urn"]
              /\ parsed.records[i]["url"] = BASE_URL \o xml.items[i]["urn"]

\* the range of records a call asks for
Range(req) ==
    req.startRecord..(req.startRecord + req.maximumRecordsPerPage - 1)

\* each range starts right after the one before it ends
Contiguous(log) ==
    \A k \in 2..Len(log) :
        log[k].startRecord =
            log[k - 1].startRecord + log[k - 1].maximumRecordsPerPage

NonOverlapping(log) ==
    \A j, k \in 1..Len(log) : j /= k => Range(log[j]) \cap Range(log[k]) = {}

\* C18: a call of query leaves the very session, and returns the very value,
\* that it would have left and returned had it been given any other
\* startRecord with the same response and page size; and the ranges asked
\* for by a fed-forward run of two or more calls follow one another without
\* gap or overlap only if the first call was made with startRecord 1.
C18_StartRecordIgnored ==
    [][/\ QueryStep =>
            \A startRecord \in 1..(MaxStart + 1) :
                LET other == Query(Sess, r', startRecord,
                        requests'[Len(requests')].maximumRecordsPerPage)
                IN  other.sess = Sess' /\ other.ret = result'
       /\ (/\ Len(requests') >= 2
           /\ Contiguous(requests')
           /\ NonOverlapping(requests'))
            => requests'[1].startRecord = 1]_vars

C18_Witness ==
    /\ Len(requests) = 3
    /\ requests[1].startRecord = 2
    /\ requests[1].maximumRecordsPerPage = 2
    /\ requests[2].startRecord = 3
    /\ ~NonOverlapping(requests)
    /\ result.kind = "page"

RECURSIVE Repeat(_, _)
Repeat(seq, k) == IF k = 0 THEN <<>> ELSE Repeat(seq, k - 1) \o seq

\* C19: the container of an XmlToJson only ever grows, and the k-th
\* parseToJson call on a document of n items that all carry every field
\* returns the n records of the document repeated k times.
C19_RecordsAccumulate ==
    [][/\ (xml.read /\ xml'.read) =>
            IsPrefix(container_of_json, container_of_json')
       /\ (parsed'.kind = "records" /\ AllValid(xml'.items)) =>
            /\ parsed'.records =
                  Repeat([i \in 1..Len(xml'.items) |-> parseXml(xml'.items[i])],
                         nParse')
            /\ Len(parsed'.records) = nParse' * Len(xml'.items)]_vars

C19_Witness ==
    /\ nParse = 3
    /\ Len(xml.items) = 2
    /\ xml.items[1] /= xml.items[2]
    /\ parsed.kind = "records"
    /\ Len(parsed.records) = 6
    /\ parsed.records[5] = parsed.records[1]

Next ==
    \/ FetchPage
    \/ AutoPaginate
    \/ AutoIterate
    \/ AutoReturn
    \/ SaveResults

Spec == Init /\ [][Next]_vars

\* a session driven by hand, each returned start record fed forward
SpecRun == Init /\ [][RunQuery]_vars

NextExtract == XmlToJsonInit \/ ParseToJson

\* one XmlToJson and the parseToJson calls made on it
SpecExtract == Init /\ [][NextExtract]_vars

====
